---- MODULE Spec2Model ----
(***************************************************************************)
(* Model of server.py: the Flask location tracker.  Every HTTP request is  *)
(* served by its own thread (thread-per-request); the handlers             *)
(* receive_location (/loc), ip_log (/iplog) and latest_json (/latest.json) *)
(* share the module globals _latest_location and _latest_lock and the      *)
(* JSON-lines file DATA_FILE.                                              *)
(***************************************************************************)
EXTENDS Integers, Sequences, FiniteSets

\* Number of requests (one thread each) the server receives in a run.
NumRequests == 2

Requests == 1..NumRequests

VARIABLES
    IP_GEOLOOKUP,       \* os.environ.get("IP_GEOLOOKUP"), fixed for the process
    requests,           \* TRUE iff `import requests` succeeded (lines 10-13)
    _latest_location,   \* the module global: None or a record
    _latest_lock,       \* 0 when free, else the request holding the lock
    DATA_FILE,          \* the lines of data/locations.json, in file order
    now,                \* the value time.time()*1000 last returned
    pc,                 \* pc[r]: where request r's handler stands
    handler,            \* handler[r]: the route serving request r
    data,               \* data[r]: the request body as get_json sees it
    geo,                \* geo[r]: (lat, lon, meta) returned by _ip_geo_lookup,
                        \* with how its outbound call ended (outcome) and the
                        \* exception it let through, if any (exc)
    record,             \* record[r]: the dict built by the handler
    resp,               \* resp[r]: the response sent to the client
    assigned,           \* history: the records assigned to _latest_location
    outbound            \* history: number of requests.get calls made

vars == <<IP_GEOLOOKUP, requests, _latest_location, _latest_lock, DATA_FILE,
          now, pc, handler, data, geo, record, resp, assigned, outbound>>

-----------------------------------------------------------------------------
(* JSON / Python values *)

\* Python None, which is also what JSON null and a missing key read as.
None == [t |-> "null", v |-> 0]
\* A JSON number.
Num(n) == [t |-> "num", v |-> n]
\* A JSON string that float() parses, such as "2".
NumStr(n) == [t |-> "numstr", v |-> n]
\* A JSON string that float() does not parse, such as "abc".
BadStr == [t |-> "str", v |-> 0]

\* The values a client may send as lat, and as lon.
LatVals == {None, Num(1), BadStr}
LonVals == {None, NumStr(2), BadStr}
\* The values the geolocation provider may send as latitude or longitude.
ProviderVals == {None, Num(3), BadStr}

\* float(x) raises ValueError unless x is a number or a numeric string.
CanFloat(x) == x.t \in {"num", "numstr"}
float(x) == Num(x.v)

\* str.lower() on the values the environment variable takes here.
lower(s) == IF s \in {"TRUE", "True"} THEN "true" ELSE s

\* The request bodies: not JSON at all, a non-empty JSON array, or a JSON
\* object with its lat and lon members; the complete report is the one
\* sent with an accuracy member.
Bodies ==
    {[shape |-> s, lat |-> None, lon |-> None, accuracy |-> None] :
        s \in {"malformed", "array"}}
    \cup {[shape |-> "object", lat |-> a, lon |-> b,
           accuracy |-> IF CanFloat(a) /\ CanFloat(b) THEN Num(5) ELSE None] :
        a \in LatVals, b \in LonVals}
\* The empty JSON object {}.
EmptyObject == [shape |-> "object", lat |-> None, lon |-> None,
                accuracy |-> None]
NoBody == [shape |-> "none", lat |-> None, lon |-> None, accuracy |-> None]

\* What the outbound call of _ip_geo_lookup can end in.
Outcomes ==
    {[kind |-> k, latitude |-> None, longitude |-> None] :
        k \in {"exception", "notok", "badjson"}}
    \cup {[kind |-> "ok", latitude |-> a, longitude |-> b] :
        a \in ProviderVals, b \in ProviderVals}

NoGeo == [lat |-> None, lon |-> None, meta |-> "unset", outcome |-> "none",
          exc |-> "none"]
\* A record keeps the fields the handlers decide on: lat, lon, server_ts,
\* and the "source" and "meta" keys that only ip_log sets ("absent" in a
\* record of receive_location).  req is the identity of the dict object:
\* the request that built it.  accuracy stands for the fields copied from
\* the request unread (accuracy, client_ts, deviceInfo, phone, name); ip
\* and ua are left out.
NoRecord == [lat |-> None, lon |-> None, accuracy |-> None, server_ts |-> 0,
             source |-> "absent", meta |-> "absent", req |-> 0]
NoResp == [code |-> 0, ok |-> "absent", error |-> "absent",
           looked_up |-> "absent", body |-> None]

Json(b) == IF b THEN "true" ELSE "false"

-----------------------------------------------------------------------------
(* Helpers of the handlers *)

\* Variant: the flag defaults to on when the variable is unset.
FlagOn_DefaultTrue ==
    lower(IF IP_GEOLOOKUP = "unset" THEN "true" ELSE IP_GEOLOOKUP) = "true"

\* Line 34: the feature flag.
FlagOn == lower(IF IP_GEOLOOKUP = "unset" THEN "false" ELSE IP_GEOLOOKUP) = "true"

\* What _ip_geo_lookup hands back for outcome o: a returned triple, or an
\* exception that leaves the function.
Triple(o, lat, lon, meta) ==
    [lat |-> lat, lon |-> lon, meta |-> meta,
     outcome |-> IF FlagOn /\ requests THEN o.kind ELSE "nocall",
     exc |-> "none"]
Propagates(o, exc) ==
    [lat |-> None, lon |-> None, meta |-> "unset", outcome |-> o.kind,
     exc |-> exc]

\* Variant: the outbound call is not wrapped in try/except.
_ip_geo_lookup_NoTry(o) ==
    IF ~FlagOn THEN Triple(o, None, None, "{}")
    ELSE IF ~requests
        THEN Triple(o, None, None, "error:requests not installed")
    ELSE IF o.kind = "exception" THEN Propagates(o, "RequestException")
    ELSE IF o.kind = "badjson" THEN Propagates(o, "JSONDecodeError")
    ELSE IF o.kind = "notok" THEN Triple(o, None, None, "{}")
    ELSE IF o.latitude # None /\ o.longitude # None
            /\ CanFloat(o.latitude) /\ CanFloat(o.longitude)
        THEN Triple(o, float(o.latitude), float(o.longitude), "geo")
    ELSE Triple(o, None, None, "geo")

\* Variant: each coordinate is converted on its own.
_ip_geo_lookup_Separately(o) ==
    IF ~FlagOn THEN Triple(o, None, None, "{}")
    ELSE IF ~requests
        THEN Triple(o, None, None, "error:requests not installed")
    ELSE IF o.kind \in {"exception", "badjson"}
        THEN Triple(o, None, None, "error:lookup_failed")
    ELSE IF o.kind = "notok" THEN Triple(o, None, None, "{}")
    ELSE Triple(o,
                IF CanFloat(o.latitude) THEN float(o.latitude) ELSE None,
                IF CanFloat(o.longitude) THEN float(o.longitude) ELSE None,
                "geo")

\* Lines 32-59: what _ip_geo_lookup returns when the outbound call, if
\* one is made, ends in outcome o.  Lines 38-58 run inside try/except
\* Exception, and the float() calls inside a second one.
_ip_geo_lookup(o) ==
    IF ~FlagOn THEN Triple(o, None, None, "{}")
    ELSE IF ~requests
        THEN Triple(o, None, None, "error:requests not installed")
    ELSE IF o.kind \in {"exception", "badjson"}
        THEN Triple(o, None, None, "error:lookup_failed")
    ELSE IF o.kind = "notok" THEN Triple(o, None, None, "{}")
    ELSE IF o.latitude # None /\ o.longitude # None
            /\ CanFloat(o.latitude) /\ CanFloat(o.longitude)
        THEN Triple(o, float(o.latitude), float(o.longitude), "geo")
    ELSE Triple(o, None, None, "geo")

\* Lines 34-40: whether _ip_geo_lookup reaches requests.get.
CallsProvider == FlagOn /\ requests

\* Variant: rejects only when both coordinates are missing.
LatLonMissing_Both(lat, lon) == lat = None /\ lon = None

\* Line 85: the direct path's presence test.
LatLonMissing(lat, lon) == lat = None \/ lon = None

\* Variants: the cache is updated whatever the lookup gave, or never.
HasCoordinates_Always(rec) == TRUE
HasCoordinates_Never(rec) == FALSE

\* Line 217: the test guarding ip_log's cache update.
HasCoordinates(rec) == rec["lat"] # None /\ rec["lon"] # None

\* Variant: the flag reports whether the provider described the address.
looked_up_ByMeta(rec) == rec["meta"] = "geo"

\* Line 235: the acknowledgment flag of ip_log.
looked_up(rec) == rec["lat"] # None

\* Variant: lat and lon are stored the other way round.
LocRecord_Swapped(b, ts, r) ==
    [lat |-> float(b.lon), lon |-> float(b.lat), accuracy |-> b.accuracy,
     server_ts |-> ts, source |-> "absent", meta |-> "absent", req |-> r]

\* Lines 88-99: the dict receive_location builds from body b at time ts.
LocRecord(b, ts, r) ==
    [lat |-> float(b.lat), lon |-> float(b.lon), accuracy |-> b.accuracy,
     server_ts |-> ts, source |-> "absent", meta |-> "absent", req |-> r]

\* Variant: ip_log leaves out the "source" key.
IpRecord_NoSource(g, ts, r) ==
    [lat |-> g.lat, lon |-> g.lon, accuracy |-> None, server_ts |-> ts,
     source |-> "absent", meta |-> g.meta, req |-> r]

\* Lines 201-214: the dict ip_log builds from the lookup's triple g.
IpRecord(g, ts, r) ==
    [lat |-> g.lat, lon |-> g.lon, accuracy |-> None, server_ts |-> ts,
     source |-> "iplog", meta |-> g.meta, req |-> r]

\* Variant: the file is opened with mode "w".
_append_location_Truncate(file, rec) == <<rec>>

\* Variant: the file is opened for writing at its start.
_append_location_Prepend(file, rec) == <<rec>> \o file

\* Lines 26-29: one line is appended to the file.
_append_location(file, rec) == Append(file, rec)

-----------------------------------------------------------------------------
Init ==
    /\ IP_GEOLOOKUP \in {"unset", "false", "TRUE"}
    /\ requests \in BOOLEAN
    /\ _latest_location = None
    /\ _latest_lock = 0
    /\ DATA_FILE = <<>>
    /\ now = 0
    /\ pc = [r \in Requests |-> "idle"]
    /\ handler = [r \in Requests |-> "none"]
    /\ data = [r \in Requests |-> NoBody]
    /\ geo = [r \in Requests |-> NoGeo]
    /\ record = [r \in Requests |-> NoRecord]
    /\ resp = [r \in Requests |-> NoResp]
    /\ assigned = <<>>
    /\ outbound = 0

\* Requests are numbered in the order they arrive.
Arrives(r) == pc[r] = "idle" /\ \A q \in Requests : q < r => pc[q] # "idle"

Returns(r, response) ==
    /\ pc' = [pc EXCEPT ![r] = "returned"]
    /\ resp' = [resp EXCEPT ![r] = response]

\* An exception left the handler: Flask answers 500.
Raises(r, exc) ==
    /\ pc' = [pc EXCEPT ![r] = "raised"]
    /\ resp' = [resp EXCEPT ![r] = [NoResp EXCEPT !.code = 500, !.error = exc]]

Rejection(msg) ==
    [NoResp EXCEPT !.code = 400, !.ok = Json(FALSE), !.error = msg]

-----------------------------------------------------------------------------
(* receive_location, POST /loc *)

\* Lines 69-99: parse, validate, build the record.
LocBegin(r, b) ==
    /\ Arrives(r)
    /\ handler' = [handler EXCEPT ![r] = "receive_location"]
    /\ data' = [data EXCEPT ![r] = b]
    /\ IF b.shape = "malformed"
         THEN Returns(r, Rejection("Invalid JSON")) /\ UNCHANGED <<record, now>>
       ELSE IF b.shape # "object"
         THEN Returns(r, Rejection("Invalid payload")) /\ UNCHANGED <<record, now>>
       ELSE IF LatLonMissing(b.lat, b.lon)
         THEN Returns(r, Rejection("lat/lon required")) /\ UNCHANGED <<record, now>>
       ELSE IF ~(CanFloat(b.lat) /\ CanFloat(b.lon))
         THEN Raises(r, "ValueError") /\ UNCHANGED <<record, now>>
       ELSE \E d \in {0, 1} :
              /\ now' = now + d
              /\ record' = [record EXCEPT ![r] = LocRecord(b, now', r)]
              /\ pc' = [pc EXCEPT ![r] = "loc_lock"]
              /\ UNCHANGED resp
    /\ UNCHANGED <<IP_GEOLOOKUP, requests, _latest_location, _latest_lock,
                   DATA_FILE, geo, assigned, outbound>>

\* Variant: the handler does not wait for the lock.
LocAcquire_NoWait(r) ==
    /\ pc[r] = "loc_lock"
    /\ _latest_lock' = r
    /\ pc' = [pc EXCEPT ![r] = "loc_set"]
    /\ UNCHANGED <<IP_GEOLOOKUP, requests, _latest_location, DATA_FILE, now,
                   handler, data, geo, record, resp, assigned, outbound>>

\* Line 101: with _latest_lock (enter).
LocAcquire(r) ==
    /\ pc[r] = "loc_lock"
    /\ _latest_lock = 0
    /\ _latest_lock' = r
    /\ pc' = [pc EXCEPT ![r] = "loc_set"]
    /\ UNCHANGED <<IP_GEOLOOKUP, requests, _latest_location, DATA_FILE, now,
                   handler, data, geo, record, resp, assigned, outbound>>

\* Variant: a record replaces the cached one only if its server_ts is
\* not older.
LocSet_NewestWins(r) ==
    /\ pc[r] = "loc_set"
    /\ _latest_location' =
          IF _latest_location # None
               /\ _latest_location.server_ts > record[r].server_ts
            THEN _latest_location ELSE record[r]
    /\ assigned' = Append(assigned, record[r])
    /\ pc' = [pc EXCEPT ![r] = "loc_unlock"]
    /\ UNCHANGED <<IP_GEOLOOKUP, requests, _latest_lock, DATA_FILE, now,
                   handler, data, geo, record, resp, outbound>>

\* Line 103: _latest_location = record.
LocSet(r) ==
    /\ pc[r] = "loc_set"
    /\ _latest_location' = record[r]
    /\ assigned' = Append(assigned, record[r])
    /\ pc' = [pc EXCEPT ![r] = "loc_unlock"]
    /\ UNCHANGED <<IP_GEOLOOKUP, requests, _latest_lock, DATA_FILE, now,
                   handler, data, geo, record, resp, outbound>>

\* Line 101: with _latest_lock (exit).
LocRelease(r) ==
    /\ pc[r] = "loc_unlock"
    /\ _latest_lock' = 0
    /\ pc' = [pc EXCEPT ![r] = "loc_append"]
    /\ UNCHANGED <<IP_GEOLOOKUP, requests, _latest_location, DATA_FILE, now,
                   handler, data, geo, record, resp, assigned, outbound>>

\* Variant: a failed write unwinds the cache update.
LocAppend_Unwinds(r, written) ==
    /\ pc[r] = "loc_append"
    /\ IF written
         THEN /\ DATA_FILE' = _append_location(DATA_FILE, record[r])
              /\ Returns(r, [NoResp EXCEPT !.code = 200, !.ok = Json(TRUE)])
              /\ UNCHANGED _latest_location
         ELSE /\ Raises(r, "OSError")
              /\ _latest_location' = None
              /\ UNCHANGED DATA_FILE
    /\ UNCHANGED <<IP_GEOLOOKUP, requests, _latest_lock, now,
                   handler, data, geo, record, assigned, outbound>>

\* Lines 104-119: append to the file, print, answer.  The write either
\* succeeds or raises OSError (disk full, permission denied), which
\* nothing in the handler catches.
LocAppend(r, written) ==
    /\ pc[r] = "loc_append"
    /\ IF written
         THEN /\ DATA_FILE' = _append_location(DATA_FILE, record[r])
              /\ Returns(r, [NoResp EXCEPT !.code = 200, !.ok = Json(TRUE)])
         ELSE /\ Raises(r, "OSError")
              /\ UNCHANGED DATA_FILE
    /\ UNCHANGED <<IP_GEOLOOKUP, requests, _latest_location, _latest_lock, now,
                   handler, data, geo, record, assigned, outbound>>

-----------------------------------------------------------------------------
(* ip_log, POST /iplog *)

\* Lines 188-197: read the body leniently.  `get_json(silent=True) or {}`
\* turns a malformed body into {}; a non-empty array is kept and data.get
\* raises AttributeError.
IpBegin(r, b) ==
    /\ Arrives(r)
    /\ b.lat = None /\ b.lon = None /\ b.accuracy = None
    /\ handler' = [handler EXCEPT ![r] = "ip_log"]
    /\ data' = [data EXCEPT ![r] =
                  IF b.shape = "malformed" THEN EmptyObject ELSE b]
    /\ IF b.shape = "array"
         THEN Raises(r, "AttributeError")
         ELSE pc' = [pc EXCEPT ![r] = "ip_lookup"] /\ UNCHANGED resp
    /\ UNCHANGED <<IP_GEOLOOKUP, requests, _latest_location, _latest_lock,
                   DATA_FILE, now, geo, record, assigned, outbound>>

\* Lines 199-217: the lookup returns, the record is built, and the
\* handler decides whether to update the cache.  An exception leaving
\* _ip_geo_lookup would leave ip_log too: line 199 is in no try block.
IpLookup(r, o) ==
    /\ pc[r] = "ip_lookup"
    /\ geo' = [geo EXCEPT ![r] = _ip_geo_lookup(o)]
    /\ outbound' = IF CallsProvider THEN outbound + 1 ELSE outbound
    /\ IF geo'[r].exc # "none"
         THEN Raises(r, geo'[r].exc) /\ UNCHANGED <<record, now>>
         ELSE /\ \E d \in {0, 1} :
                   /\ now' = now + d
                   /\ record' = [record EXCEPT ![r] =
                                   IpRecord(geo'[r], now', r)]
              /\ pc' = [pc EXCEPT ![r] =
                          IF HasCoordinates(record'[r])
                            THEN "ip_lock" ELSE "ip_append"]
              /\ UNCHANGED resp
    /\ UNCHANGED <<IP_GEOLOOKUP, requests, _latest_location, _latest_lock,
                   DATA_FILE, handler, data, assigned>>

\* Line 218: with _latest_lock (enter).
IpAcquire(r) ==
    /\ pc[r] = "ip_lock"
    /\ _latest_lock = 0
    /\ _latest_lock' = r
    /\ pc' = [pc EXCEPT ![r] = "ip_set"]
    /\ UNCHANGED <<IP_GEOLOOKUP, requests, _latest_location, DATA_FILE, now,
                   handler, data, geo, record, resp, assigned, outbound>>

\* Line 220: _latest_location = record.
IpSet(r) ==
    /\ pc[r] = "ip_set"
    /\ _latest_location' = record[r]
    /\ assigned' = Append(assigned, record[r])
    /\ pc' = [pc EXCEPT ![r] = "ip_unlock"]
    /\ UNCHANGED <<IP_GEOLOOKUP, requests, _latest_lock, DATA_FILE, now,
                   handler, data, geo, record, resp, outbound>>

\* Line 218: with _latest_lock (exit).
IpRelease(r) ==
    /\ pc[r] = "ip_unlock"
    /\ _latest_lock' = 0
    /\ pc' = [pc EXCEPT ![r] = "ip_append"]
    /\ UNCHANGED <<IP_GEOLOOKUP, requests, _latest_location, DATA_FILE, now,
                   handler, data, geo, record, resp, assigned, outbound>>

\* Variant: only records with coordinates are written to the file.
IpAppend_OnlyResolved(r, written) ==
    /\ pc[r] = "ip_append"
    /\ IF written
         THEN /\ DATA_FILE' = IF HasCoordinates(record[r])
                                THEN _append_location(DATA_FILE, record[r])
                                ELSE DATA_FILE
              /\ Returns(r, [NoResp EXCEPT !.code = 200, !.ok = Json(TRUE),
                                !.looked_up = Json(looked_up(record[r]))])
         ELSE /\ Raises(r, "OSError")
              /\ UNCHANGED DATA_FILE
    /\ UNCHANGED <<IP_GEOLOOKUP, requests, _latest_location, _latest_lock, now,
                   handler, data, geo, record, assigned, outbound>>

\* Lines 221-235: append to the file, print, answer with looked_up.
IpAppend(r, written) ==
    /\ pc[r] = "ip_append"
    /\ IF written
         THEN /\ DATA_FILE' = _append_location(DATA_FILE, record[r])
              /\ Returns(r, [NoResp EXCEPT !.code = 200, !.ok = Json(TRUE),
                                !.looked_up = Json(looked_up(record[r]))])
         ELSE /\ Raises(r, "OSError")
              /\ UNCHANGED DATA_FILE
    /\ UNCHANGED <<IP_GEOLOOKUP, requests, _latest_location, _latest_lock, now,
                   handler, data, geo, record, assigned, outbound>>

-----------------------------------------------------------------------------
(* latest_json, GET /latest.json *)

\* Lines 172-173: the request is dispatched to latest_json.
LatestBegin(r) ==
    /\ Arrives(r)
    /\ handler' = [handler EXCEPT ![r] = "latest_json"]
    /\ pc' = [pc EXCEPT ![r] = "latest_lock"]
    /\ UNCHANGED <<IP_GEOLOOKUP, requests, _latest_location, _latest_lock,
                   DATA_FILE, now, data, geo, record, resp, assigned,
                   outbound>>

\* Line 174: with _latest_lock (enter).
LatestAcquire(r) ==
    /\ pc[r] = "latest_lock"
    /\ _latest_lock = 0
    /\ _latest_lock' = r
    /\ pc' = [pc EXCEPT ![r] = "latest_read"]
    /\ UNCHANGED <<IP_GEOLOOKUP, requests, _latest_location, DATA_FILE, now,
                   handler, data, geo, record, resp, assigned, outbound>>

\* Lines 175-177: build the answer from _latest_location.
LatestRead(r) ==
    /\ pc[r] = "latest_read"
    /\ resp' = [resp EXCEPT ![r] =
          IF _latest_location = None
            THEN [NoResp EXCEPT !.code = 404]
            ELSE [NoResp EXCEPT !.code = 200, !.body = _latest_location]]
    /\ pc' = [pc EXCEPT ![r] = "latest_unlock"]
    /\ UNCHANGED <<IP_GEOLOOKUP, requests, _latest_location, _latest_lock,
                   DATA_FILE, now, handler, data, geo, record, assigned,
                   outbound>>

\* Variant: the handler returns without releasing the lock.
LatestRelease_KeepsLock(r) ==
    /\ pc[r] = "latest_unlock"
    /\ pc' = [pc EXCEPT ![r] = "returned"]
    /\ UNCHANGED <<IP_GEOLOOKUP, requests, _latest_location, _latest_lock,
                   DATA_FILE, now, handler, data, geo, record, resp, assigned,
                   outbound>>

\* Line 174: with _latest_lock (exit), the response goes out.
LatestRelease(r) ==
    /\ pc[r] = "latest_unlock"
    /\ _latest_lock' = 0
    /\ pc' = [pc EXCEPT ![r] = "returned"]
    /\ UNCHANGED <<IP_GEOLOOKUP, requests, _latest_location, DATA_FILE, now,
                   handler, data, geo, record, resp, assigned, outbound>>

-----------------------------------------------------------------------------
Next ==
    \/ \E r \in Requests, b \in Bodies : LocBegin(r, b)
    \/ \E r \in Requests : LocAcquire(r)
    \/ \E r \in Requests : LocSet(r)
    \/ \E r \in Requests : LocRelease(r)
    \/ \E r \in Requests, written \in BOOLEAN : LocAppend(r, written)
    \/ \E r \in Requests, b \in Bodies : IpBegin(r, b)
    \/ \E r \in Requests, o \in Outcomes : IpLookup(r, o)
    \/ \E r \in Requests : IpAcquire(r)
    \/ \E r \in Requests : IpSet(r)
    \/ \E r \in Requests : IpRelease(r)
    \/ \E r \in Requests, written \in BOOLEAN : IpAppend(r, written)
    \/ \E r \in Requests : LatestBegin(r)
    \/ \E r \in Requests : LatestAcquire(r)
    \/ \E r \in Requests : LatestRead(r)
    \/ \E r \in Requests : LatestRelease(r)

Spec == Init /\ [][Next]_vars

\* The steps of request r's thread once the request has arrived.
Handle(r) ==
    \/ LocAcquire(r) \/ LocSet(r) \/ LocRelease(r)
    \/ \E written \in BOOLEAN : LocAppend(r, written)
    \/ \E o \in Outcomes : IpLookup(r, o)
    \/ IpAcquire(r) \/ IpSet(r) \/ IpRelease(r)
    \/ \E written \in BOOLEAN : IpAppend(r, written)
    \/ LatestAcquire(r) \/ LatestRead(r) \/ LatestRelease(r)

\* Every thread that can run is eventually scheduled, the outbound call
\* returns (timeout=3, line 40) and the file write ends.
FairSpec == Spec /\ \A r \in Requests : WF_vars(Handle(r))

-----------------------------------------------------------------------------
(* Vocabulary of the properties *)

IsLoc(r) == handler[r] = "receive_location"
IsIp(r) == handler[r] = "ip_log"
IsLatest(r) == handler[r] = "latest_json"

\* The record carries both coordinates.
Resolvable(rec) == rec.lat # None /\ rec.lon # None

\* Request r built a record, i.e. its input was accepted.
Accepted(r) == record[r] # NoRecord

\* Request r assigned _latest_location at some point.
Wrote(r) == \E i \in 1..Len(assigned) : assigned[i].req = r

\* The lines of the file written by request r.
LinesOf(r) == {i \in 1..Len(DATA_FILE) : DATA_FILE[i].req = r}

\* The handler of r ended, with a response or with an exception.
Ended(r) == pc[r] \in {"returned", "raised"}

\* _append_location raised in request r.
AppendFailed(r) == pc[r] = "raised" /\ resp[r].error = "OSError"

\* Request r makes a step.
Steps(r) == pc'[r] # pc[r]

-----------------------------------------------------------------------------
C1_WitnessEmptyRead ==
    \E r \in Requests :
        IsLatest(r) /\ pc[r] = "returned" /\ resp[r].code = 404
          /\ assigned = <<>>

-----------------------------------------------------------------------------
\* C2 (as claimed): every record of an acknowledged request is in the log
\* exactly once and the lines of the log are in acceptance order, which is
\* the order of the server_ts values and the order of the cache updates.
C2_LogInAcceptanceOrder ==
    /\ \A r \in Requests :
          pc[r] = "returned" /\ Accepted(r) => Cardinality(LinesOf(r)) = 1
    /\ \A i, j \in 1..Len(DATA_FILE) :
          i < j => DATA_FILE[i].server_ts <= DATA_FILE[j].server_ts
    /\ \A i, j \in 1..Len(DATA_FILE), k, l \in 1..Len(assigned) :
          i < j /\ assigned[k] = DATA_FILE[i] /\ assigned[l] = DATA_FILE[j]
             => k < l

\* C2 (amended): every record of an acknowledged request is in the log
\* exactly once, no record is ever in it twice, and the lines are in the
\* order in which the _append_location calls completed: a completed call
\* adds its record as the last line and no step changes the earlier lines.
C2_LogInAppendOrder ==
    /\ [](\A r \in Requests :
            /\ Cardinality(LinesOf(r)) <= 1
            /\ pc[r] = "returned" /\ Accepted(r) => Cardinality(LinesOf(r)) = 1
            /\ \A i \in LinesOf(r) : DATA_FILE[i] = record[r])
    /\ [][\A r \in Requests :
            Steps(r) =>
               IF pc[r] \in {"loc_append", "ip_append"} /\ pc'[r] = "returned"
                 THEN DATA_FILE' = Append(DATA_FILE, record[r])
                 ELSE DATA_FILE' = DATA_FILE]_vars

\* Two lines whose order in the file is not the order of their server_ts.
C2_Witness ==
    /\ Len(DATA_FILE) = 2
    /\ DATA_FILE[1].server_ts > DATA_FILE[2].server_ts
    /\ \A r \in Requests : pc[r] = "returned"

-----------------------------------------------------------------------------
\* C3: a receive_location whose body is not a JSON object, or whose lat or
\* lon is missing, is answered 400 with ok:false in the step that reads it,
\* and that step changes neither _latest_location nor the file; the request
\* never builds a record, never assigns the cache, never writes a line.
C3_Incomplete(b) == b.shape # "object" \/ b.lat = None \/ b.lon = None

C3_RejectionChangesNothing ==
    /\ [](\A r \in Requests :
            IsLoc(r) /\ C3_Incomplete(data[r]) =>
               /\ pc[r] = "returned"
               /\ resp[r].code = 400 /\ resp[r].ok = "false"
               /\ resp[r].error # "absent"
               /\ ~Accepted(r) /\ ~Wrote(r) /\ LinesOf(r) = {})
    /\ [][\A r \in Requests :
            Steps(r) /\ handler'[r] = "receive_location"
              /\ C3_Incomplete(data'[r]) =>
                 /\ _latest_location' = _latest_location
                 /\ DATA_FILE' = DATA_FILE
                 /\ assigned' = assigned]_vars

\* A request with lon but no lat was rejected while the cache held a record.
C3_Witness ==
    \E r \in Requests :
        /\ IsLoc(r) /\ data[r].shape = "object"
        /\ data[r].lat = None /\ data[r].lon # None
        /\ resp[r].code = 400
        /\ _latest_location # None

-----------------------------------------------------------------------------
\* C4: a receive_location whose body is an object with lat and lon present
\* but one of them non-numeric is answered with a rejection (400, ok:false
\* and a message), not with an unhandled failure, and changes nothing.
C4_NonNumericRejected ==
    \A r \in Requests :
        IsLoc(r) /\ data[r].shape = "object"
          /\ data[r].lat # None /\ data[r].lon # None
          /\ ~(CanFloat(data[r].lat) /\ CanFloat(data[r].lon)) =>
             /\ pc[r] = "returned"
             /\ resp[r].code = 400 /\ resp[r].ok = "false"
             /\ ~Wrote(r) /\ LinesOf(r) = {}

-----------------------------------------------------------------------------
\* C5: a valid ingestion is acknowledged whether or not the write to the
\* file succeeds: once the handler of a request that built a record has
\* ended, the client has ok:true (with looked_up for ip_log).
C5_AcknowledgedDespiteAppendFailure ==
    \A r \in Requests :
        Ended(r) /\ Accepted(r) =>
           /\ pc[r] = "returned"
           /\ resp[r].code = 200 /\ resp[r].ok = "true"
           /\ IsIp(r) => resp[r].looked_up \in {"true", "false"}

-----------------------------------------------------------------------------
\* C6: receive_location has assigned the cache by the time it calls
\* _append_location, and a failing call does not undo the assignment: the
\* failing step leaves _latest_location as it is, and afterwards the cache
\* holds the request's record unless a later assignment replaced it.
C6_AppendFailureKeepsCache ==
    /\ [](\A r \in Requests :
            IsLoc(r) /\ (pc[r] = "loc_append" \/ AppendFailed(r)) =>
               /\ Wrote(r)
               /\ assigned[Len(assigned)].req = r =>
                     _latest_location = record[r])
    /\ [][\A r \in Requests :
            IsLoc(r) /\ pc[r] = "loc_append" /\ Steps(r) =>
               _latest_location' = _latest_location]_vars

\* The append of a receive_location failed and the cache holds its record.
C6_Witness ==
    \E r \in Requests :
        IsLoc(r) /\ AppendFailed(r) /\ _latest_location = record[r]
          /\ LinesOf(r) = {}

-----------------------------------------------------------------------------
\* C7: an ip_log assigns _latest_location if and only if _ip_geo_lookup
\* returned both coordinates; no step of an ip_log whose lookup returned
\* (None, None, meta) changes the cache.
C7_IpWritesCacheIffResolved ==
    /\ [](\A r \in Requests :
            IsIp(r) /\ (pc[r] = "ip_append" \/ (Ended(r) /\ Accepted(r))) =>
               (Wrote(r) <=> (geo[r].lat # None /\ geo[r].lon # None)))
    /\ [][\A r \in Requests :
            IsIp(r) /\ Steps(r)
              /\ ~(geo'[r].lat # None /\ geo'[r].lon # None) =>
                 _latest_location' = _latest_location]_vars

\* An unresolved ip_log returned and left another request's record cached.
C7_Witness ==
    \E r \in Requests :
        /\ IsIp(r) /\ pc[r] = "returned"
        /\ geo[r].lat = None /\ ~Wrote(r)
        /\ _latest_location # None

-----------------------------------------------------------------------------
\* C8: an ip_log that reached the lookup and returned has written exactly
\* one line, with or without coordinates (before its append step it has
\* written none, and never more than one); when the lookup gave no
\* coordinates the line has null lat and lon, carries source "iplog", and
\* the response has looked_up false.
C8_IpAlwaysLogged ==
    \A r \in Requests :
        IsIp(r) =>
           /\ Cardinality(LinesOf(r)) <= 1
           /\ pc[r] \in {"ip_lookup", "ip_lock", "ip_set", "ip_unlock",
                         "ip_append"} => LinesOf(r) = {}
           /\ pc[r] = "returned" =>
                 /\ Cardinality(LinesOf(r)) = 1
                 /\ \A i \in LinesOf(r) :
                       /\ DATA_FILE[i].source = "iplog"
                       /\ DATA_FILE[i].lat = geo[r].lat
                       /\ DATA_FILE[i].lon = geo[r].lon
                       /\ DATA_FILE[i].meta = geo[r].meta
                 /\ geo[r].lat = None \/ geo[r].lon = None =>
                       /\ \A i \in LinesOf(r) :
                             DATA_FILE[i].lat = None /\ DATA_FILE[i].lon = None
                       /\ resp[r].looked_up = "false"

\* A lookup that failed was logged with null coordinates.
C8_Witness ==
    \E r \in Requests :
        /\ IsIp(r) /\ pc[r] = "returned"
        /\ geo[r].meta = "error:lookup_failed"
        /\ \E i \in LinesOf(r) : DATA_FILE[i].lat = None
        /\ resp[r].looked_up = "false"

-----------------------------------------------------------------------------
\* C9: the looked_up flag an ip_log returns is true exactly when the lookup
\* returned coordinates, exactly when the request assigned the cache, and
\* exactly when its line has lat and lon; it is false exactly when its
\* line has null coordinates.
C9_LookedUpIffResolved ==
    \A r \in Requests :
        IsIp(r) /\ pc[r] = "returned" =>
           /\ resp[r].ok = "true"
           /\ resp[r].looked_up \in {"true", "false"}
           /\ resp[r].looked_up = "true" <=>
                 (geo[r].lat # None /\ geo[r].lon # None)
           /\ resp[r].looked_up = "true" <=> Wrote(r)
           /\ resp[r].looked_up = "true" <=>
                 \E i \in LinesOf(r) : Resolvable(DATA_FILE[i])
           /\ resp[r].looked_up = "false" <=>
                 \E i \in LinesOf(r) :
                    DATA_FILE[i].lat = None /\ DATA_FILE[i].lon = None

\* One ip_log answered looked_up true and another looked_up false although
\* the provider had sent city data.
C9_Witness ==
    \E r, q \in Requests :
        /\ IsIp(r) /\ pc[r] = "returned" /\ resp[r].looked_up = "true"
        /\ IsIp(q) /\ pc[q] = "returned" /\ resp[q].looked_up = "false"
        /\ geo[q].meta = "geo"

-----------------------------------------------------------------------------
\* C10: when IP_GEOLOOKUP is unset or is not "true" (compared without
\* regard to case), no outbound call is ever made, no ip_log assigns the
\* cache, no record of an ip_log has coordinates, and every ip_log that
\* returns answers looked_up false.
C10_FlagOffNoLookup ==
    lower(IP_GEOLOOKUP) # "true" =>
       /\ outbound = 0
       /\ \A i \in 1..Len(assigned) : assigned[i].source # "iplog"
       /\ \A r \in Requests :
             IsIp(r) =>
                /\ ~Wrote(r)
                /\ ~Resolvable(record[r])
                /\ pc[r] = "returned" => resp[r].looked_up = "false"

\* With the flag off an ip_log returned while the cache held a direct fix.
C10_Witness ==
    /\ lower(IP_GEOLOOKUP) # "true"
    /\ \E r \in Requests :
          IsIp(r) /\ pc[r] = "returned" /\ resp[r].looked_up = "false"
    /\ _latest_location # None

-----------------------------------------------------------------------------
\* C11: with the flag on and the requests library present, whatever the
\* outbound call ends in, _ip_geo_lookup hands ip_log a triple and never an
\* exception: a timeout, a network failure, an error status or a malformed
\* body gives (None, None, meta), a successful answer gives both
\* coordinates or neither, and the only 500 an ip_log that reached the
\* lookup can end in is the one of a failed file write.
C11_LookupNeverRaises ==
    \A r \in Requests :
        IsIp(r) /\ geo[r].outcome \notin {"none", "nocall"} =>
           /\ geo[r].exc = "none"
           /\ Accepted(r)
           /\ pc[r] = "raised" => resp[r].error = "OSError"
           /\ pc[r] = "returned" => resp[r].code = 200 /\ resp[r].ok = "true"
           /\ geo[r].outcome \in {"exception", "badjson"} =>
                 /\ geo[r].lat = None /\ geo[r].lon = None
                 /\ geo[r].meta = "error:lookup_failed"
           /\ geo[r].outcome = "notok" =>
                 geo[r].lat = None /\ geo[r].lon = None /\ geo[r].meta = "{}"
           /\ geo[r].outcome = "ok" =>
                 /\ (geo[r].lat = None) <=> (geo[r].lon = None)
                 /\ geo[r].meta = "geo"

\* One lookup timed out, another got a malformed body, and both requests
\* were answered.
C11_Witness ==
    \E r, q \in Requests :
        /\ IsIp(r) /\ geo[r].outcome = "exception" /\ pc[r] = "returned"
        /\ IsIp(q) /\ geo[q].outcome = "badjson" /\ pc[q] = "returned"
        /\ resp[r].looked_up = "false" /\ resp[q].looked_up = "false"

-----------------------------------------------------------------------------
\* C12: ip_log accepts every body: whatever was sent, the request goes on
\* to the lookup and the file write and, unless that write fails, returns
\* ok:true.
C12_IpAlwaysAccepted ==
    \A r \in Requests :
        IsIp(r) /\ Ended(r) /\ ~AppendFailed(r) =>
           /\ pc[r] = "returned"
           /\ resp[r].code = 200 /\ resp[r].ok = "true"
           /\ Accepted(r) /\ LinesOf(r) # {}

-----------------------------------------------------------------------------
\* C13: the file has as many lines as there are accepted requests whose
\* handler returned; every line is the whole record of one request and no
\* two lines are of the same request; a completed _append_location adds
\* its record as the last line, and no other step touches the file.
C13_Completed == {r \in Requests : pc[r] = "returned" /\ Accepted(r)}

-----------------------------------------------------------------------------
\* C14: once a receive_location has returned ok:true and no later
\* assignment has replaced its record, the cache holds a record whose lat
\* and lon are the numbers the client sent and whose accuracy is the
\* client's; latest_json answers with exactly the cached record, so a
\* latest_json that reads then returns those values.
C14_RoundTrip ==
    /\ [](\A r \in Requests :
            IsLoc(r) /\ pc[r] = "returned" /\ resp[r].ok = "true" =>
               /\ assigned # <<>>
               /\ assigned[Len(assigned)].req = r =>
                     /\ _latest_location.lat = Num(data[r].lat.v)
                     /\ _latest_location.lon = Num(data[r].lon.v)
                     /\ _latest_location.accuracy = data[r].accuracy)
    /\ [](\A q \in Requests :
            IsLatest(q) /\ resp[q].code = 200 /\ IsLoc(resp[q].body.req) =>
               /\ resp[q].body.lat = Num(data[resp[q].body.req].lat.v)
               /\ resp[q].body.lon = Num(data[resp[q].body.req].lon.v)
               /\ resp[q].body.accuracy = data[resp[q].body.req].accuracy)
    /\ [][\A q \in Requests :
            pc[q] = "latest_read" /\ Steps(q) =>
               IF _latest_location = None
                 THEN resp'[q].code = 404
                 ELSE resp'[q].code = 200
                        /\ resp'[q].body = _latest_location]_vars

\* A report with lon sent as the string "2" was acknowledged, and the
\* latest_json that arrived after it answers lat 1, lon 2, accuracy 5.
C14_Witness ==
    \E r, q \in Requests :
        /\ r < q
        /\ IsLoc(r) /\ pc[r] = "returned" /\ resp[r].ok = "true"
        /\ data[r].lon = NumStr(2)
        /\ IsLatest(q) /\ pc[q] = "returned" /\ resp[q].code = 200
        /\ resp[q].body.req = r
        /\ resp[q].body.lat = Num(1) /\ resp[q].body.lon = Num(2)
        /\ resp[q].body.accuracy = Num(5)

-----------------------------------------------------------------------------
\* The records in the file and in the cache.
Stored ==
    {DATA_FILE[i] : i \in 1..Len(DATA_FILE)}
       \cup (IF _latest_location = None THEN {} ELSE {_latest_location})

-----------------------------------------------------------------------------
\* C16: every assignment stores the whole record of the assigning request;
\* when several requests have assigned and none is between taking the lock
\* and releasing it, the cache is the complete record of exactly one of
\* them, the one that assigned last, whatever the server_ts values are.
C16_Writers == {r \in Requests : Wrote(r)}

C16_LastAssignmentWins ==
    /\ [](C16_Writers # {} /\ _latest_lock = 0 =>
            /\ \E r \in C16_Writers :
                  /\ _latest_location = record[r]
                  /\ assigned[Len(assigned)].req = r
            /\ Cardinality({r \in C16_Writers :
                              _latest_location = record[r]}) = 1)
    /\ [][\A r \in Requests :
            pc[r] \in {"loc_set", "ip_set"} /\ Steps(r) =>
               _latest_location' = record[r]]_vars

\* Two requests have assigned and ended; the cache holds the record with
\* the older server_ts.
C16_Witness ==
    /\ \A r \in Requests : Ended(r)
    /\ Len(assigned) = 2
    /\ _latest_location = assigned[2]
    /\ assigned[2].server_ts < assigned[1].server_ts

-----------------------------------------------------------------------------
\* C17: at most one request is between taking and releasing _latest_lock,
\* and it is the one recorded as holder; the holder is at a read or an
\* assignment of _latest_location, never in the outbound lookup or in the
\* file write.
InCritical(r) ==
    pc[r] \in {"loc_set", "loc_unlock", "ip_set", "ip_unlock",
               "latest_read", "latest_unlock"}

C17_MutualExclusion ==
    /\ Cardinality({r \in Requests : InCritical(r)}) <= 1
    /\ \A r \in Requests : InCritical(r) <=> _latest_lock = r
    /\ _latest_lock # 0 =>
          pc[_latest_lock] \notin {"ip_lookup", "loc_append", "ip_append"}

\* One request holds the lock while another is in its lookup or file write
\* or waits for the lock.
C17_Witness ==
    \E r, q \in Requests :
        /\ _latest_lock = r /\ pc[r] = "loc_set"
        /\ pc[q] \in {"ip_lookup", "ip_append", "loc_append", "loc_lock",
                      "ip_lock", "latest_lock"}

-----------------------------------------------------------------------------
\* C18: every record in the file and in the cache, and every record a
\* handler has built, has lat and lon both null or both non-null.
C18_BothOrNeither ==
    /\ \A rec \in Stored : (rec.lat = None) <=> (rec.lon = None)
    /\ \A r \in Requests : (record[r].lat = None) <=> (record[r].lon = None)

\* The file holds an ip-derived record without coordinates, from a lookup
\* that succeeded without usable coordinates, and a record with both.
C18_Witness ==
    /\ \E i \in 1..Len(DATA_FILE) :
          /\ DATA_FILE[i].lat = None /\ DATA_FILE[i].lon = None
          /\ DATA_FILE[i].meta = "geo"
    /\ \E i \in 1..Len(DATA_FILE) : Resolvable(DATA_FILE[i])

-----------------------------------------------------------------------------
\* No handler is running, and no file write has failed.
Quiescent == \A r \in Requests : pc[r] \in {"idle", "returned", "raised"}
NoAppendFailed == \A r \in Requests : ~AppendFailed(r)

\* The lines of the file that carry coordinates.
ResolvableLines == {i \in 1..Len(DATA_FILE) : Resolvable(DATA_FILE[i])}

\* The last such line, None if there is none.
LastResolvable ==
    IF ResolvableLines = {} THEN None
    ELSE DATA_FILE[CHOOSE i \in ResolvableLines :
                      \A j \in ResolvableLines : j <= i]

-----------------------------------------------------------------------------
\* C20: under FairSpec every request that has arrived ends with a response,
\* every holder of _latest_lock gives it up, and in no state is a request
\* under way while none of the running handlers can take a step.
Pending(r) == pc[r] \notin {"idle", "returned", "raised"}

C20_EveryRequestAnswered ==
    /\ \A r \in Requests : Pending(r) ~> (Ended(r) /\ resp[r].code # 0)
    /\ \A r \in Requests : (_latest_lock = r) ~> (_latest_lock # r)
    /\ []((\E r \in Requests : Pending(r)) =>
             \E q \in Requests : Pending(q) /\ ENABLED Handle(q))

\* A request waits for the lock that another one holds.
C20_Witness ==
    \E r, q \in Requests :
        /\ _latest_lock = r
        /\ pc[q] \in {"loc_lock", "ip_lock", "latest_lock"}

====
